---------------------------- MODULE Spec2Model ----------------------------
(***************************************************************************)
(* PyQueryBuilder: the fluent QueryBuilder (core/builder.py), the          *)
(* SQLGenerator (sql/generator.py), the SchemaRegistry                     *)
(* (schema/registry.py) and generate_alias (schema/alias_generator.py).    *)
(*                                                                         *)
(* Python strings are sequences of one-character strings, so that lower(), *)
(* split(), strip() and f-string formatting are computed, not assumed.     *)
(* Python values of dynamic type are tagged records: None, StrV(s),        *)
(* IntV(n), ObjV(r).  Dicts are functions whose DOMAIN is the set of keys  *)
(* present.                                                                *)
(***************************************************************************)
EXTENDS Integers, Sequences, FiniteSets, TLC

VARIABLES
    _select_fields,     \* QueryBuilder._select_fields   (list)
    _from_table,        \* QueryBuilder._from_table      (None or dict)
    _joins,             \* QueryBuilder._joins           (list of dicts)
    _where_conditions,  \* QueryBuilder._where_conditions(list of dicts)
    _order_by,          \* QueryBuilder._order_by        (list of dicts)
    _limit,             \* QueryBuilder._limit           (None or int)
    _offset,            \* QueryBuilder._offset          (None or int)
    result,             \* what the last call returned: Self, or (sql, params)
    from_raw,           \* the argument of the last from_table call
    joins_raw,          \* the table argument of each join call, in order
    where_calls,        \* the arguments of each where call, in order
    ncalls,             \* number of setter calls made so far
    tables,             \* SchemaRegistry.tables
    columns,            \* SchemaRegistry.columns
    relationships,      \* SchemaRegistry.relationships
    join_paths,         \* SchemaRegistry.join_paths
    alias_map,          \* SchemaRegistry.alias_map
    last_metadata,      \* the argument of the last register_schema call
    nregs               \* number of register_schema calls made so far

qbvars == <<_select_fields, _from_table, _joins, _where_conditions,
            _order_by, _limit, _offset>>
qbghost == <<from_raw, joins_raw, where_calls, ncalls>>
regvars == <<tables, columns, relationships, join_paths, alias_map>>
regghost == <<last_metadata, nregs>>
vars == <<qbvars, result, qbghost, regvars, regghost>>

-----------------------------------------------------------------------------
(* Bounds of the model.                                                    *)
MaxCalls == 5    \* setter calls on one QueryBuilder
MaxJoins == 2    \* join calls in SpecParse
MaxRegs == 2     \* register_schema calls on one SchemaRegistry

-----------------------------------------------------------------------------
(* Python values.                                                          *)
None == [k |-> "none"]
StrV(s) == [k |-> "str", s |-> s]
IntV(n) == [k |-> "int", n |-> n]
ObjV(r) == [k |-> "obj", r |-> r]

IsStr(v) == v.k = "str"

\* Python truthiness: None, "", 0 and empty containers are falsy.
Truthy(v) ==
    CASE v.k = "none" -> FALSE
      [] v.k = "str" -> v.s # <<>>
      [] v.k = "int" -> v.n # 0
      [] OTHER -> TRUE

-----------------------------------------------------------------------------
(* Python str operations on character sequences.                           *)
UpperChars == <<"A","B","C","D","E","F","G","H","I","J","K","L","M",
                "N","O","P","Q","R","S","T","U","V","W","X","Y","Z">>
LowerChars == <<"a","b","c","d","e","f","g","h","i","j","k","l","m",
                "n","o","p","q","r","s","t","u","v","w","x","y","z">>

LowerChar(c) ==
    IF \E i \in 1..Len(UpperChars) : UpperChars[i] = c
    THEN LowerChars[CHOOSE i \in 1..Len(UpperChars) : UpperChars[i] = c]
    ELSE c

UpperChar(c) ==
    IF \E i \in 1..Len(LowerChars) : LowerChars[i] = c
    THEN UpperChars[CHOOSE i \in 1..Len(LowerChars) : LowerChars[i] = c]
    ELSE c

\* str.lower()
Lower(s) == [i \in 1..Len(s) |-> LowerChar(s[i])]
\* str.upper()
Upper(s) == [i \in 1..Len(s) |-> UpperChar(s[i])]

\* sub occurs in s at position i
OccursAt(s, sub, i) ==
    /\ i >= 1
    /\ i + Len(sub) - 1 <= Len(s)
    /\ SubSeq(s, i, i + Len(sub) - 1) = sub

\* str.find(), 1-based; 0 when sub does not occur
Find(s, sub) ==
    LET occurrences == { i \in 1..Len(s) : OccursAt(s, sub, i) }
    IN IF occurrences = {} THEN 0
       ELSE CHOOSE i \in occurrences : \A j \in occurrences : i <= j

\* sub in s
Contains(s, sub) == Find(s, sub) > 0

\* str.split(sep): every non-overlapping occurrence, left to right
RECURSIVE Split(_, _)
Split(s, sep) ==
    LET i == Find(s, sep)
    IN IF i = 0 THEN <<s>>
       ELSE <<SubSeq(s, 1, i - 1)>> \o Split(SubSeq(s, i + Len(sep), Len(s)), sep)

\* str.strip()
RECURSIVE Strip(_)
Strip(s) ==
    IF s = <<>> THEN s
    ELSE IF Head(s) = " " THEN Strip(Tail(s))
    ELSE IF s[Len(s)] = " " THEN Strip(SubSeq(s, 1, Len(s) - 1))
    ELSE s

\* sep.join(parts)
RECURSIVE Join(_, _)
Join(sep, parts) ==
    IF parts = <<>> THEN <<>>
    ELSE IF Len(parts) = 1 THEN parts[1]
    ELSE parts[1] \o sep \o Join(sep, Tail(parts))

Digits == <<"0","1","2","3","4","5","6","7","8","9">>

\* str(n) for a non-negative int
RECURSIVE IntStr(_)
IntStr(n) ==
    IF n < 10 THEN <<Digits[n + 1]>>
    ELSE IntStr(n \div 10) \o <<Digits[(n % 10) + 1]>>

\* str(v), the textual form an f-string renders
Str(v) ==
    CASE v.k = "str" -> v.s
      [] v.k = "int" -> IntStr(v.n)
      [] v.k = "none" -> <<"N","o","n","e">>
      [] v.k = "obj" -> v.r

\* dict.get(key), None when the key is missing
Get(d, key) == IF key \in DOMAIN d THEN d[key] ELSE None

-----------------------------------------------------------------------------
(* QueryBuilder: the setters.                                              *)

\* what a setter returns ("return self")
Self == [op |-> "self"]

\* the " as " and " AS " separators of from_table and join
SepLower == <<" ","a","s"," ">>
SepUpper == <<" ","A","S"," ">>

\* from_table: the dict stored for a table argument
ParseFromTable(table) ==
    IF IsStr(table) /\ Contains(Lower(table.s), SepLower)
    THEN LET parts == Split(Lower(table.s), SepLower)
         IN [table |-> StrV(Strip(parts[1])), alias |-> StrV(Strip(parts[2]))]
    ELSE IF IsStr(table) /\ Contains(table.s, SepUpper)
    THEN LET parts == Split(table.s, SepUpper)
         IN [table |-> StrV(Strip(parts[1])), alias |-> StrV(Strip(parts[2]))]
    ELSE [table |-> table]

\* ParseJoinTable with only the literal " AS " test
ParseJoinTableCaseSensitive(table) ==
    IF IsStr(table) /\ Contains(table.s, SepUpper)
    THEN LET parts == Split(table.s, SepUpper)
         IN ("table" :> StrV(Strip(parts[1]))) @@ ("alias" :> StrV(Strip(parts[2])))
    ELSE ("table" :> table)

\* join: the table/alias part of table_info for a table argument
ParseJoinTable(table) ==
    IF IsStr(table) /\ Contains(Lower(table.s), SepLower)
    THEN LET parts == Split(Lower(table.s), SepLower)
         IN ("table" :> StrV(Strip(parts[1]))) @@ ("alias" :> StrV(Strip(parts[2])))
    ELSE IF IsStr(table) /\ Contains(table.s, SepUpper)
    THEN LET parts == Split(table.s, SepUpper)
         IN ("table" :> StrV(Strip(parts[1]))) @@ ("alias" :> StrV(Strip(parts[2])))
    ELSE ("table" :> table)

\* join: table_info with the condition (when truthy) and the upper-cased type
JoinInfo(table, condition, join_type) ==
    LET table_info == ParseJoinTable(table)
        with_cond == IF Truthy(condition)
                     THEN table_info @@ ("condition" :> condition)
                     ELSE table_info
    IN with_cond @@ ("type" :> StrV(Upper(join_type.s)))

\* where: the condition recorded for (field, operator, value) after the
\* defaults operator=None, value=None have been applied
WhereCondition(field, operator, value) ==
    IF value = None /\ operator # None
    THEN [field |-> field, operator |-> StrV(<<"=">>), value |-> operator]
    ELSE [field |-> field, operator |-> operator, value |-> value]

\* the arguments where() receives for a call with 1, 2 or 3 positional arguments
CallOperator(call) == IF Len(call.args) >= 1 THEN call.args[1] ELSE None
CallValue(call) == IF Len(call.args) >= 2 THEN call.args[2] ELSE None

select(fields) ==
    /\ ncalls < MaxCalls
    /\ _select_fields' = _select_fields \o fields
    /\ result' = Self
    /\ ncalls' = ncalls + 1
    /\ UNCHANGED <<_from_table, _joins, _where_conditions, _order_by, _limit,
                   _offset, from_raw, joins_raw, where_calls, regvars, regghost>>

from_table(table) ==
    /\ ncalls < MaxCalls
    /\ _from_table' = ParseFromTable(table)
    /\ from_raw' = table
    /\ result' = Self
    /\ ncalls' = ncalls + 1
    /\ UNCHANGED <<_select_fields, _joins, _where_conditions, _order_by, _limit,
                   _offset, joins_raw, where_calls, regvars, regghost>>

join(table, condition, join_type) ==
    /\ ncalls < MaxCalls
    /\ _joins' = Append(_joins, JoinInfo(table, condition, join_type))
    /\ joins_raw' = Append(joins_raw, table)
    /\ result' = Self
    /\ ncalls' = ncalls + 1
    /\ UNCHANGED <<_select_fields, _from_table, _where_conditions, _order_by,
                   _limit, _offset, from_raw, where_calls, regvars, regghost>>

where(call) ==
    /\ ncalls < MaxCalls
    /\ _where_conditions' =
          Append(_where_conditions,
                 WhereCondition(call.field, CallOperator(call), CallValue(call)))
    /\ where_calls' = Append(where_calls, call)
    /\ result' = Self
    /\ ncalls' = ncalls + 1
    /\ UNCHANGED <<_select_fields, _from_table, _joins, _order_by, _limit,
                   _offset, from_raw, joins_raw, regvars, regghost>>

order_by(field, direction) ==
    /\ ncalls < MaxCalls
    /\ _order_by' = Append(_order_by, [field |-> field, direction |-> direction])
    /\ result' = Self
    /\ ncalls' = ncalls + 1
    /\ UNCHANGED <<_select_fields, _from_table, _joins, _where_conditions,
                   _limit, _offset, from_raw, joins_raw, where_calls,
                   regvars, regghost>>

limit(n) ==
    /\ ncalls < MaxCalls
    /\ _limit' = n
    /\ result' = Self
    /\ ncalls' = ncalls + 1
    /\ UNCHANGED <<_select_fields, _from_table, _joins, _where_conditions,
                   _order_by, _offset, from_raw, joins_raw, where_calls,
                   regvars, regghost>>

offset(n) ==
    /\ ncalls < MaxCalls
    /\ _offset' = n
    /\ result' = Self
    /\ ncalls' = ncalls + 1
    /\ UNCHANGED <<_select_fields, _from_table, _joins, _where_conditions,
                   _order_by, _limit, from_raw, joins_raw, where_calls,
                   regvars, regghost>>

-----------------------------------------------------------------------------
(* QueryBuilder.build: one operator per clause, in the order of the code.  *)

KwSelect == <<"S","E","L","E","C","T">>
KwFrom == <<"F","R","O","M">>
KwJoin == <<"J","O","I","N">>
KwAs == <<"A","S">>
KwOn == <<"O","N">>
KwWhere == <<"W","H","E","R","E">>
KwAnd == <<"A","N","D">>
KwOrderBy == <<"O","R","D","E","R"," ","B","Y">>
KwLimit == <<"L","I","M","I","T">>
KwOffset == <<"O","F","F","S","E","T">>
KwInner == <<"I","N","N","E","R">>
Sp == <<" ">>
CommaSp == <<",", " ">>

\* the QueryBuilder instance build() reads
Instance ==
    [select_fields |-> _select_fields, from_table |-> _from_table,
     joins |-> _joins, where_conditions |-> _where_conditions,
     order_by |-> _order_by, limit |-> _limit, offset |-> _offset]

\* "SELECT " + ", ".join(str(field) ...), or "SELECT *"
SelectClause(self) ==
    IF self.select_fields # <<>>
    THEN KwSelect \o Sp \o
         Join(CommaSp, [i \in 1..Len(self.select_fields) |-> Str(self.select_fields[i])])
    ELSE KwSelect \o Sp \o <<"*">>

\* the parts the FROM block appends (none when _from_table is None)
FromClause(self) ==
    IF self.from_table # None
    THEN LET table == self.from_table["table"]
             alias == Get(self.from_table, "alias")
         IN IF Truthy(alias)
            THEN <<KwFrom \o Sp \o Str(table) \o Sp \o KwAs \o Sp \o Str(alias)>>
            ELSE <<KwFrom \o Sp \o Str(table)>>
    ELSE <<>>

\* one JOIN clause
JoinClause(j) ==
    LET table == j["table"]
        alias == Get(j, "alias")
        condition == Get(j, "condition")
        join_type == IF "type" \in DOMAIN j THEN j["type"] ELSE StrV(KwInner)
        join_clause ==
            IF Truthy(alias)
            THEN Str(join_type) \o Sp \o KwJoin \o Sp \o Str(table) \o Sp \o KwAs \o Sp \o Str(alias)
            ELSE Str(join_type) \o Sp \o KwJoin \o Sp \o Str(table)
    IN IF Truthy(condition)
       THEN join_clause \o Sp \o KwOn \o Sp \o Str(condition)
       ELSE join_clause

\* the parts the JOIN loop appends, in list order
JoinClauses(self) == [i \in 1..Len(self.joins) |-> JoinClause(self.joins[i])]

\* ParamName with a counter that is never incremented
ParamNameStuck(param_idx) == <<"p">> \o IntStr(0)

\* f"p{param_idx}"
ParamName(param_idx) == <<"p">> \o IntStr(param_idx)

\* the WHERE loop from condition number i on, with its running param_idx:
\* the where_parts it appends and the params it sets
RECURSIVE WhereLoop(_, _, _)
WhereLoop(conds, i, param_idx) ==
    IF i > Len(conds) THEN [where_parts |-> <<>>, params |-> <<>>]
    ELSE LET field == conds[i].field
             operator == conds[i].operator
             value == conds[i].value
             param_name == ParamName(param_idx)
             rest == WhereLoop(conds, i + 1, param_idx + 1)
         IN [where_parts |->
                <<Str(field) \o Sp \o Str(operator) \o Sp \o <<":">> \o param_name>>
                \o rest.where_parts,
             params |-> rest.params @@ (param_name :> value)]

\* the parts the WHERE block appends
WhereClause(self) ==
    IF self.where_conditions # <<>>
    THEN <<KwWhere \o Sp \o
           Join(Sp \o KwAnd \o Sp, WhereLoop(self.where_conditions, 1, 0).where_parts)>>
    ELSE <<>>

\* the parts the ORDER BY block appends
OrderClause(self) ==
    IF self.order_by # <<>>
    THEN <<KwOrderBy \o Sp \o
           Join(CommaSp, [i \in 1..Len(self.order_by) |->
                Str(self.order_by[i].field) \o Sp \o Upper(self.order_by[i].direction.s)])>>
    ELSE <<>>

\* LimitOffsetClauses with truthiness tests ("if self._limit:")
LimitOffsetTruthy(self) ==
    (IF Truthy(self.limit) THEN <<KwLimit \o Sp \o Str(self.limit)>> ELSE <<>>)
    \o (IF Truthy(self.offset) THEN <<KwOffset \o Sp \o Str(self.offset)>> ELSE <<>>)

\* the parts the LIMIT and OFFSET tests append
LimitOffsetClauses(self) ==
    (IF self.limit # None THEN <<KwLimit \o Sp \o Str(self.limit)>> ELSE <<>>)
    \o (IF self.offset # None THEN <<KwOffset \o Sp \o Str(self.offset)>> ELSE <<>>)

\* Build with the WHERE block placed before the JOIN loop
BuildWhereBeforeJoins(self) ==
    LET sql_parts == <<SelectClause(self)>> \o FromClause(self) \o WhereClause(self)
                     \o JoinClauses(self) \o OrderClause(self)
                     \o LimitOffsetClauses(self)
    IN [op |-> "build",
        sql |-> Join(Sp, sql_parts),
        params |-> WhereLoop(self.where_conditions, 1, 0).params]

\* build(): (sql, params)
Build(self) ==
    LET sql_parts == <<SelectClause(self)>> \o FromClause(self) \o JoinClauses(self)
                     \o WhereClause(self) \o OrderClause(self)
                     \o LimitOffsetClauses(self)
    IN [op |-> "build",
        sql |-> Join(Sp, sql_parts),
        params |-> WhereLoop(self.where_conditions, 1, 0).params]

\* build that consumes the conditions it rendered
build_and_clear ==
    /\ result' = Build(Instance)
    /\ _where_conditions' = <<>>
    /\ UNCHANGED <<_select_fields, _from_table, _joins, _order_by, _limit, _offset,
                   qbghost, regvars, regghost>>

build ==
    /\ result' = Build(Instance)
    /\ UNCHANGED <<qbvars, qbghost, regvars, regghost>>

-----------------------------------------------------------------------------
(* SQLGenerator.generate, on an analyzed_query dict.                       *)

\* dict.get(key, default)
GetOr(d, key, default) == IF key \in DOMAIN d THEN d[key] ELSE default

\* the record a caller hands to generate() for the builder's accumulated state
AnalyzedQuery ==
    [select_fields |-> _select_fields, from_table |-> _from_table,
     joins |-> _joins, where_conditions |-> _where_conditions,
     order_by |-> _order_by, limit |-> _limit, offset |-> _offset]

GenSelectClause(analyzed_query) ==
    LET select_fields == GetOr(analyzed_query, "select_fields", <<>>)
    IN IF select_fields # <<>>
       THEN KwSelect \o Sp \o
            Join(CommaSp, [i \in 1..Len(select_fields) |-> Str(select_fields[i])])
       ELSE KwSelect \o Sp \o <<"*">>

GenFromClause(analyzed_query) ==
    LET from_tbl == GetOr(analyzed_query, "from_table", <<>>)
    IN IF from_tbl # None /\ from_tbl # <<>>
       THEN LET table == Get(from_tbl, "table")
                alias == Get(from_tbl, "alias")
            IN IF Truthy(alias)
               THEN <<KwFrom \o Sp \o Str(table) \o Sp \o KwAs \o Sp \o Str(alias)>>
               ELSE <<KwFrom \o Sp \o Str(table)>>
       ELSE <<>>

GenJoinClause(j) ==
    LET table == Get(j, "table")
        alias == Get(j, "alias")
        condition == Get(j, "condition")
        join_type == GetOr(j, "type", StrV(KwInner))
        join_clause ==
            IF Truthy(alias)
            THEN Str(join_type) \o Sp \o KwJoin \o Sp \o Str(table) \o Sp \o KwAs \o Sp \o Str(alias)
            ELSE Str(join_type) \o Sp \o KwJoin \o Sp \o Str(table)
    IN IF Truthy(condition)
       THEN join_clause \o Sp \o KwOn \o Sp \o Str(condition)
       ELSE join_clause

GenJoinClauses(analyzed_query) ==
    LET joins == GetOr(analyzed_query, "joins", <<>>)
    IN [i \in 1..Len(joins) |-> GenJoinClause(joins[i])]

RECURSIVE GenWhereLoop(_, _, _)
GenWhereLoop(where_conditions, i, param_idx) ==
    IF i > Len(where_conditions) THEN [where_parts |-> <<>>, params |-> <<>>]
    ELSE LET field == where_conditions[i]["field"]
             operator == where_conditions[i]["operator"]
             value == where_conditions[i]["value"]
             param_name == <<"p">> \o IntStr(param_idx)
             rest == GenWhereLoop(where_conditions, i + 1, param_idx + 1)
         IN [where_parts |->
                <<Str(field) \o Sp \o Str(operator) \o Sp \o <<":">> \o param_name>>
                \o rest.where_parts,
             params |-> rest.params @@ (param_name :> value)]

GenWhereClause(analyzed_query) ==
    LET where_conditions == GetOr(analyzed_query, "where_conditions", <<>>)
    IN IF where_conditions # <<>>
       THEN <<KwWhere \o Sp \o
              Join(Sp \o KwAnd \o Sp, GenWhereLoop(where_conditions, 1, 0).where_parts)>>
       ELSE <<>>

GenOrderClause(analyzed_query) ==
    LET order_specs == GetOr(analyzed_query, "order_by", <<>>)
    IN IF order_specs # <<>>
       THEN <<KwOrderBy \o Sp \o
              Join(CommaSp, [i \in 1..Len(order_specs) |->
                   Str(order_specs[i]["field"]) \o Sp \o Upper(order_specs[i]["direction"].s)])>>
       ELSE <<>>

\* GenLimitOffsetClauses with truthiness tests ("if limit:")
GenLimitOffsetTruthy(analyzed_query) ==
    LET limit_ == Get(analyzed_query, "limit")
        offset_ == Get(analyzed_query, "offset")
    IN (IF Truthy(limit_) THEN <<KwLimit \o Sp \o Str(limit_)>> ELSE <<>>)
       \o (IF Truthy(offset_) THEN <<KwOffset \o Sp \o Str(offset_)>> ELSE <<>>)

GenLimitOffsetClauses(analyzed_query) ==
    LET limit_ == Get(analyzed_query, "limit")
        offset_ == Get(analyzed_query, "offset")
    IN (IF limit_ # None THEN <<KwLimit \o Sp \o Str(limit_)>> ELSE <<>>)
       \o (IF offset_ # None THEN <<KwOffset \o Sp \o Str(offset_)>> ELSE <<>>)

\* generate(analyzed_query): (sql, params)
Generate(analyzed_query) ==
    LET sql_parts == <<GenSelectClause(analyzed_query)>> \o GenFromClause(analyzed_query)
                     \o GenJoinClauses(analyzed_query) \o GenWhereClause(analyzed_query)
                     \o GenOrderClause(analyzed_query)
                     \o GenLimitOffsetClauses(analyzed_query)
    IN [op |-> "generate",
        sql |-> Join(Sp, sql_parts),
        params |-> GenWhereLoop(GetOr(analyzed_query, "where_conditions", <<>>), 1, 0).params]

generate ==
    /\ result' = Generate(AnalyzedQuery)
    /\ UNCHANGED <<qbvars, qbghost, regvars, regghost>>

-----------------------------------------------------------------------------
(* Inputs of the QueryBuilder's setters.                                   *)

FieldA == StrV(<<"a">>)
FieldB == StrV(<<"b">>)
FieldFn == ObjV(<<"n","(",")">>)

\* select("b", n())
SelectArgs == { <<FieldB, FieldFn>> }

\* table specifiers: plain, upper-case separator with upper-case names,
\* lower-case separator with padding, mixed-case separator, two separators,
\* a separator with nothing after it, and a non-string expression object
TablePlain == StrV(<<"t">>)
TableUpper == StrV(<<"T"," ","A","S"," ","X">>)
TablePadded == StrV(<<" ","u"," "," ","a","s"," "," ","y">>)
TableMixed == StrV(<<"V"," ","A","s"," ","z">>)
TableTwoSeps == StrV(<<"t"," ","a","s"," ","x"," ","a","s"," ","y">>)
TableNoAlias == StrV(<<"w"," ","a","s"," ">>)
TableObject == ObjV(<<"(","q",")">>)

TableSpecs == {TablePlain, TableUpper}
AllTableSpecs == {TablePlain, TableUpper, TablePadded, TableMixed, TableTwoSeps,
                  TableNoAlias, TableObject}

CondOn == StrV(<<"t",".","a","=","x",".","a">>)
TypeInner == StrV(<<"I","N","N","E","R">>)
TypeLeft == StrV(<<"l","e","f","t">>)
\* join("t"); join("T AS X", "t.a=x.a", "left")
JoinArgs == { <<TablePlain, None, TypeInner>>, <<TableUpper, CondOn, TypeLeft>> }
AllJoinArgs == { <<t, None, TypeInner>> : t \in AllTableSpecs }
                  \cup { <<TableUpper, CondOn, TypeLeft>> }

\* where("a", 5); where("a", "<", 0); where("b", "=", ""); where("b", "IS", None)
OpLt == StrV(<<"<">>)
OpEq == StrV(<<"=">>)
OpIs == StrV(<<"I","S">>)
WhereCalls ==
    { [field |-> FieldA, args |-> <<IntV(5)>>],
      [field |-> FieldA, args |-> <<OpLt, IntV(0)>>],
      [field |-> FieldB, args |-> <<OpEq, StrV(<<>>)>>],
      [field |-> FieldB, args |-> <<OpIs, None>>] }

Directions == { StrV(<<"a","s","c">>), StrV(<<"D","E","S","C">>) }
Counts == { IntV(0), IntV(10) }

-----------------------------------------------------------------------------
(* generate_alias (schema/alias_generator.py).                             *)

\* ''.join(word[0] for word in words if word)
RECURSIVE Initials(_)
Initials(words) ==
    IF words = <<>> THEN <<>>
    ELSE (IF Head(words) # <<>> THEN <<Head(words)[1]>> ELSE <<>>)
         \o Initials(Tail(words))

generate_alias(table_name) ==
    LET words == Split(table_name, <<"_">>)
    IN IF Len(words) = 1
       THEN IF Len(table_name) > 3
            THEN Lower(SubSeq(table_name, 1, 2))
            ELSE Lower(<<table_name[1]>>)
       ELSE Lower(Initials(words))

-----------------------------------------------------------------------------
(* SchemaRegistry.  A registry is the record of its five dicts.  tables,   *)
(* columns, join_paths and alias_map are functions on their keys; the      *)
(* relationships dict is the sequence of its items, in insertion order,    *)
(* which is the order _build_join_paths iterates in.                       *)

Registry ==
    [tables |-> tables, columns |-> columns, relationships |-> relationships,
     join_paths |-> join_paths, alias_map |-> alias_map]

\* SchemaRegistry.__init__
EmptyRegistry ==
    [tables |-> <<>>, columns |-> <<>>, relationships |-> <<>>,
     join_paths |-> <<>>, alias_map |-> <<>>]

\* d with d[key] = value set
DictSet(d, key, value) == (key :> value) @@ d

\* the alias-map loop of register_schema: every table whose info has an
\* "alias" key sets alias_map[alias] = table_name
BuildAliasMap(old_alias_map, new_tables) ==
    LET declared == { t \in DOMAIN new_tables : "alias" \in DOMAIN new_tables[t] }
        aliases == { new_tables[t]["alias"] : t \in declared }
    IN [a \in (DOMAIN old_alias_map) \cup aliases |->
          IF a \in aliases
          THEN CHOOSE t \in declared : new_tables[t]["alias"] = a
          ELSE old_alias_map[a]]

\* _add_join_path on a registry with tables reg_tables and join paths paths
AddJoinPath(reg_tables, paths, source_table, target_table, source_column, target_column) ==
    LET declared == Get(GetOr(reg_tables, target_table, <<>>), "alias")
        target_alias == IF ~Truthy(declared)
                        THEN StrV(Lower(<<target_table.s[1]>>))
                        ELSE declared
        condition == StrV(source_table.s \o <<".">> \o source_column.s
                          \o <<" ","="," ">> \o target_alias.s \o <<".">> \o target_column.s)
        inner == GetOr(paths, source_table, <<>>)
    IN DictSet(paths, source_table,
               DictSet(inner, target_table,
                       [table |-> target_table, alias |-> target_alias,
                        condition |-> condition]))

\* _build_join_paths from relationship number i on
RECURSIVE BuildJoinPaths(_, _, _, _)
BuildJoinPaths(reg_tables, rels, i, paths) ==
    IF i > Len(rels) THEN paths
    ELSE LET rel == rels[i].rel
             source_table == Get(rel, "source_table")
             target_table == Get(rel, "target_table")
             source_column == Get(rel, "source_column")
             target_column == Get(rel, "target_column")
         IN IF /\ Truthy(source_table) /\ Truthy(target_table)
               /\ Truthy(source_column) /\ Truthy(target_column)
            THEN BuildJoinPaths(reg_tables, rels, i + 1,
                    AddJoinPath(reg_tables, paths, source_table, target_table,
                                source_column, target_column))
            ELSE BuildJoinPaths(reg_tables, rels, i + 1, paths)

\* register_schema(schema_metadata) on registry reg: the registry afterwards
RegisterSchema(reg, schema_metadata) ==
    LET new_tables == GetOr(schema_metadata, "tables", <<>>)
        new_columns == GetOr(schema_metadata, "columns", <<>>)
        new_rels == GetOr(schema_metadata, "relationships", <<>>)
    IN [tables |-> new_tables,
        columns |-> new_columns,
        relationships |-> new_rels,
        alias_map |-> BuildAliasMap(reg.alias_map, new_tables),
        join_paths |->
            IF "join_paths" \in DOMAIN schema_metadata
            THEN schema_metadata["join_paths"]
            ELSE BuildJoinPaths(new_tables, new_rels, 1, reg.join_paths)]

register_schema(schema_metadata) ==
    /\ nregs < MaxRegs
    /\ LET after == RegisterSchema(Registry, schema_metadata)
       IN /\ tables' = after.tables
          /\ columns' = after.columns
          /\ relationships' = after.relationships
          /\ join_paths' = after.join_paths
          /\ alias_map' = after.alias_map
    /\ last_metadata' = schema_metadata
    /\ nregs' = nregs + 1
    /\ UNCHANGED <<qbvars, result, qbghost>>

-----------------------------------------------------------------------------
(* Inputs of register_schema.                                              *)

Orders == StrV(<<"o","r","d","e","r","s">>)
Customers == StrV(<<"c","u","s","t","o","m","e","r","s">>)
Tag == StrV(<<"t","a","g">>)
UserProfile == StrV(<<"u","s","e","r","_","p","r","o","f","i","l","e">>)
ColId == StrV(<<"i","d">>)
ColCustomerId == StrV(<<"c","u","s","t","o","m","e","r","_","i","d">>)
ColBillingId == StrV(<<"b","i","l","l","_","i","d">>)
ColTagId == StrV(<<"t","a","g","_","i","d">>)
AliasO == StrV(<<"o">>)
AliasCust == StrV(<<"c","u","s","t">>)
AliasTg == StrV(<<"t","g">>)

NoInfo == <<>>
WithAlias(a) == ("alias" :> a)

\* within one metadata no two tables declare the same alias, so the order in
\* which the alias-map loop visits the tables does not matter
TableOptions ==
    { <<>>,
      ("tables" :> ((Orders :> WithAlias(AliasO)) @@ (Customers :> WithAlias(AliasCust))))
        @@ ("columns" :> (Orders :> <<ColId, ColCustomerId>>)),
      ("tables" :> ((Orders :> NoInfo) @@ (Customers :> NoInfo) @@ (Tag :> WithAlias(AliasTg)))) }

Rel(st, sc, tt, tc) ==
    ("source_table" :> st) @@ ("source_column" :> sc)
    @@ ("target_table" :> tt) @@ ("target_column" :> tc)
RelNoTargetColumn(st, sc, tt) ==
    ("source_table" :> st) @@ ("source_column" :> sc) @@ ("target_table" :> tt)

RelationshipOptions ==
    { <<>>,
      ("relationships" :> <<[id |-> "r1", rel |-> Rel(Orders, ColCustomerId, Customers, ColId)]>>),
      ("relationships" :>
         <<[id |-> "r1", rel |-> Rel(Orders, ColCustomerId, Customers, ColId)],
           [id |-> "r2", rel |-> Rel(Orders, ColBillingId, Customers, ColId)],
           [id |-> "r3", rel |-> RelNoTargetColumn(Orders, ColTagId, Tag)]>>),
      ("relationships" :>
         <<[id |-> "r1", rel |-> Rel(Customers, ColTagId, Tag, ColId)],
           [id |-> "r2", rel |-> Rel(Orders, ColId, UserProfile, ColId)]>>) }

GivenJoinPaths ==
    (Orders :> (Tag :> [table |-> Tag, alias |-> AliasTg,
                        condition |-> StrV(<<"o",".","t","=","t","g",".","i">>)]))

JoinPathOptions == { <<>>, ("join_paths" :> GivenJoinPaths) }

Metadata ==
    { t @@ r @@ j : t \in TableOptions, r \in RelationshipOptions, j \in JoinPathOptions }

-----------------------------------------------------------------------------
Init ==
    /\ _select_fields = <<>>
    /\ _from_table = None
    /\ _joins = <<>>
    /\ _where_conditions = <<>>
    /\ _order_by = <<>>
    /\ _limit = None
    /\ _offset = None
    /\ result = Self
    /\ from_raw = None
    /\ joins_raw = <<>>
    /\ where_calls = <<>>
    /\ ncalls = 0
    /\ tables = <<>>
    /\ columns = <<>>
    /\ relationships = <<>>
    /\ join_paths = <<>>
    /\ alias_map = <<>>
    /\ last_metadata = None
    /\ nregs = 0

Next ==
    \/ \E fields \in SelectArgs : select(fields)
    \/ \E table \in TableSpecs : from_table(table)
    \/ \E a \in JoinArgs : join(a[1], a[2], a[3])
    \/ \E call \in WhereCalls : where(call)
    \/ \E field \in {FieldA}, direction \in Directions : order_by(field, direction)
    \/ \E n \in Counts : limit(n)
    \/ \E n \in Counts : offset(n)
    \/ build
    \/ generate

Spec == Init /\ [][Next]_vars

\* from_table and join over every kind of table specifier
NextParse ==
    \/ \E table \in AllTableSpecs : from_table(table)
    \/ \E a \in AllJoinArgs : Len(_joins) < MaxJoins /\ join(a[1], a[2], a[3])
    \/ build

SpecParse == Init /\ [][NextParse]_vars

NextRegistry == \E schema_metadata \in Metadata : register_schema(schema_metadata)

SpecRegistry == Init /\ [][NextRegistry]_vars

-----------------------------------------------------------------------------
(* Properties.                                                             *)

Built == result.op = "build"

\* the registry register_schema leaves when called once on a fresh registry
FreshRegistration(schema_metadata) == RegisterSchema(EmptyRegistry, schema_metadata)

\* C1: after any sequence of register_schema calls the registry holds exactly
\* what one register_schema call with the last metadata gives a fresh
\* registry: nothing of an earlier registration survives.
C1_ReplacedWholesale ==
    nregs >= 1 => Registry = FreshRegistration(last_metadata)

\* a relationship with all four fields present
Complete(rel) ==
    /\ Truthy(Get(rel, "source_table")) /\ Truthy(Get(rel, "source_column"))
    /\ Truthy(Get(rel, "target_table")) /\ Truthy(Get(rel, "target_column"))

\* no later complete relationship has the same source and target table
LastForPair(rels, i) ==
    \A j \in (i + 1)..Len(rels) :
        Complete(rels[j].rel) =>
            \/ rels[j].rel["source_table"] # rels[i].rel["source_table"]
            \/ rels[j].rel["target_table"] # rels[i].rel["target_table"]

\* the alias the claim names: the one declared on the target, else generate_alias
ClaimedAlias(target_table) ==
    IF target_table \in DOMAIN tables /\ "alias" \in DOMAIN tables[target_table]
    THEN tables[target_table]["alias"]
    ELSE StrV(generate_alias(target_table.s))

\* C2: when register_schema derives the join paths, every relationship with
\* all four fields present (the last one of its source/target pair) has the
\* entry {table: target, alias: A, condition: "source.col = A.col"} with A the
\* declared alias of the target, else generate_alias(target).
C2_DerivedJoinPaths ==
    (nregs >= 1 /\ "join_paths" \notin DOMAIN last_metadata) =>
        \A i \in 1..Len(relationships) :
            LET rel == relationships[i].rel
            IN (Complete(rel) /\ LastForPair(relationships, i)) =>
                 LET st == rel["source_table"]
                     tt == rel["target_table"]
                     A == ClaimedAlias(tt)
                 IN /\ st \in DOMAIN join_paths
                    /\ tt \in DOMAIN join_paths[st]
                    /\ join_paths[st][tt] =
                         [table |-> tt, alias |-> A,
                          condition |-> StrV(st.s \o <<".">> \o rel["source_column"].s
                                             \o <<" ","="," ">> \o A.s \o <<".">>
                                             \o rel["target_column"].s)]

\* C3: a where call is read as the two-argument form (operator "=", value =
\* second argument) only when no third argument was passed; a call with a
\* third argument, whatever its value, records the second argument as the
\* operator and the third as the value.
C3_ThirdArgumentKept ==
    \A i \in 1..Len(where_calls) :
        LET call == where_calls[i]
        IN /\ Len(call.args) = 1 =>
                _where_conditions[i] =
                    [field |-> call.field, operator |-> StrV(<<"=">>), value |-> call.args[1]]
           /\ Len(call.args) = 2 =>
                _where_conditions[i] =
                    [field |-> call.field, operator |-> call.args[1], value |-> call.args[2]]

\* the placeholder name of the Nth where call
Placeholder(n) == <<"p">> \o IntStr(n - 1)

\* C4: build() renders the condition of the Nth where call with placeholder
\* :p{N-1} and binds the value that call recorded under key p{N-1}; with k
\* where calls the keys are exactly p0..p{k-1}, whatever the fields are.
C4_PositionalParams ==
    Built =>
        LET k == Len(where_calls)
        IN /\ DOMAIN result.params = { Placeholder(n) : n \in 1..k }
           /\ Cardinality(DOMAIN result.params) = k
           /\ \A n \in 1..k :
                /\ result.params[Placeholder(n)] = _where_conditions[n].value
                /\ Contains(result.sql,
                            Str(where_calls[n].field) \o Sp
                            \o Str(_where_conditions[n].operator) \o Sp
                            \o <<":">> \o Placeholder(n))
           /\ \A n \in 1..(k - 1) :
                Find(result.sql, <<":">> \o Placeholder(n))
                    < Find(result.sql, <<":">> \o Placeholder(n + 1))

\* three where calls, two of them on the same field, then build()
C4_Witness ==
    /\ Built
    /\ Len(where_calls) >= 3
    /\ where_calls[1].field = where_calls[3].field
    /\ _joins # <<>>

\* where each clause keyword first occurs in the built SQL (0: nowhere)
KeywordPositions ==
    << Find(result.sql, KwSelect \o Sp),
       Find(result.sql, Sp \o KwFrom \o Sp),
       Find(result.sql, Sp \o KwJoin \o Sp),
       Find(result.sql, Sp \o KwWhere \o Sp),
       Find(result.sql, Sp \o KwOrderBy \o Sp),
       Find(result.sql, Sp \o KwLimit \o Sp),
       Find(result.sql, Sp \o KwOffset \o Sp) >>

\* every position at which " JOIN " occurs in the built SQL
JoinPositions ==
    { p \in 1..Len(result.sql) : OccursAt(result.sql, Sp \o KwJoin \o Sp, p) }

RawHalves(raw) ==
    LET i == Find(Lower(raw.s), SepLower)
    IN [table |-> StrV(Strip(SubSeq(raw.s, 1, i - 1))),
        alias |-> StrV(Strip(SubSeq(raw.s, i + Len(SepLower), Len(raw.s))))]

\* the table reference the claim names for a raw specifier
ClaimedRef(raw) ==
    IF IsStr(raw) /\ Contains(Lower(raw.s), SepLower)
    THEN RawHalves(raw)
    ELSE [table |-> raw]

\* the table and alias keys of a join entry
TableRef(j) == [key \in (DOMAIN j) \cap {"table", "alias"} |-> j[key]]

\* C6: a string specifier with an "AS" separator (either case) is split at
\* the first separator into the trimmed text of the raw specifier before it
\* (table) and after it (alias); any other specifier is the table, unchanged,
\* with no alias.
C6_TrimmedHalves ==
    /\ from_raw # None => _from_table = ClaimedRef(from_raw)
    /\ \A i \in 1..Len(_joins) : TableRef(_joins[i]) = ClaimedRef(joins_raw[i])

\* C7: generate() on the record of the builder's accumulated state returns
\* the SQL text and the parameter map build() returns for that state.
C7_GenerateMatchesBuild ==
    /\ Built =>
          /\ result.sql = Generate(AnalyzedQuery).sql
          /\ result.params = Generate(AnalyzedQuery).params
    /\ result.op = "generate" =>
          /\ result.sql = Build(Instance).sql
          /\ result.params = Build(Instance).params

\* generate() on a state with an aliased from-table, a join, two conditions,
\* an ordering and a limit of 0
C7_Witness ==
    /\ result.op = "generate"
    /\ _from_table # None /\ "alias" \in DOMAIN _from_table
    /\ _joins # <<>>
    /\ Len(_where_conditions) >= 1
    /\ _order_by # <<>>
    /\ _limit = IntV(0)

\* C8: build() leaves the builder's state as it was, and a build() that
\* follows a build() with no setter call in between returns the same SQL text
\* and the same parameter map.
C8_BuildIsPure ==
    [][ (result'.op = "build") =>
            /\ qbvars' = qbvars
            /\ (result.op = "build" => result' = result) ]_vars

\* build() has run on a state with a join and two conditions
C8_Witness ==
    /\ Built
    /\ _joins # <<>>
    /\ Len(_where_conditions) >= 2

\* the text that follows keyword kw in the built SQL, up to the next space
Operand(kw) ==
    LET start == Find(result.sql, kw \o Sp) + Len(kw) + 1
        rest == SubSeq(result.sql, start, Len(result.sql))
        stop == Find(rest, Sp)
    IN IF stop = 0 THEN rest ELSE SubSeq(rest, 1, stop - 1)

\* C9: build() renders LIMIT exactly when limit was set and OFFSET exactly
\* when offset was set, with the value set, 0 included.
C9_LimitOffsetWhenSet ==
    Built =>
        /\ Contains(result.sql, KwLimit) <=> (_limit # None)
        /\ Contains(result.sql, KwOffset) <=> (_offset # None)
        /\ _limit # None => Operand(KwLimit) = IntStr(_limit.n)
        /\ _offset # None => Operand(KwOffset) = IntStr(_offset.n)

\* build() after limit(0) and offset(0)
C9_Witness ==
    /\ Built
    /\ _limit = IntV(0)
    /\ _offset = IntV(0)

\* C10: from_table and join parse a specifier identically: a join entry made
\* from the specifier last given to from_table has the from-table's table and
\* alias.
C10_SameParse ==
    \A i \in 1..Len(_joins) :
        joins_raw[i] = from_raw => TableRef(_joins[i]) = _from_table

\* from_table and join were both given the mixed-case "V As z"
C10_Witness ==
    /\ from_raw = TableMixed
    /\ \E i \in 1..Len(_joins) : joins_raw[i] = TableMixed

=============================================================================
